---- MODULE Spec2Model ----
(***************************************************************************)
(* Model of the streaming generation client of the LISA SDK                *)
(* (lisa-sdk/lisapy/main.py): Lisa.generate_stream (blocking, requests)    *)
(* and Lisa.agenerate_stream (non-blocking, aiohttp).                      *)
(*                                                                         *)
(* Text is modelled as a sequence of chunks.  A chunk is an indivisible    *)
(* piece of text: the "data:" marker, one complete JSON text, or a single  *)
(* character such as "/", "n", " " or a newline.  A line of the response   *)
(* body is a sequence of chunks; the body is a sequence of lines.          *)
(***************************************************************************)
EXTENDS Naturals, Sequences, FiniteSets

\* ------------------------------------------------------------------ bounds

\* Longest response body, in lines, the server sends to a call issued alone.
MaxLines == 3
\* Longest response body, in lines, when two calls run concurrently.
MaxConcLines == 2
\* ------------------------------------------------------- program constants

\* main.py:259 / main.py:311, the only status treated as success.
HTTP_OK == 200

\* The calls a client issues.
CallIds == {1, 2}

\* Python's None.
None == "None"

\* ------------------------------------------------------------- JSON texts

TokHi     == "{\"token\":{\"text\":\"Hi\"}}"
TokBang   == "{\"token\":{\"text\":\"!\"}}"
TokYo     == "{\"token\":{\"text\":\"Yo\"}}"
Fin       == "{\"finishReason\":\"stop\",\"generatedTokens\":2}"
FinNull   == "{\"finishReason\":null,\"generatedTokens\":0}"
FinTok    == "{\"finishReason\":\"length\",\"generatedTokens\":1,\"token\":{\"text\":\"X\"}}"
FinNoGen  == "{\"finishReason\":\"stop\"}"
EmptyObj  == "{}"
TokNoText == "{\"token\":{}}"
TokStr    == "{\"token\":\"Hi\"}"
Num       == "3"
\* The JSON body of an error response; in a stream it is a line without marker.
Detail    == "{\"detail\":\"Not Found\"}"

JsonTexts ==
    {TokHi, TokBang, TokYo, Fin, FinNull, FinTok, FinNoGen, EmptyObj, TokNoText, TokStr, Num,
     Detail}

\* The value of a JSON text.  Every value has the same fields: type, the keys
\* of an object, and the values under the keys the client reads.  Scalars are
\* kept as their JSON text; null is None.
JObject(keys, fr, gt, tokType, tokKeys, text) ==
    [type |-> "object", keys |-> keys, finishReason |-> fr, generatedTokens |-> gt,
     tokenType |-> tokType, tokenKeys |-> tokKeys, text |-> text]

\* json.loads applied to one JSON text.
JsonValue(t) ==
    CASE t = TokHi     -> JObject({"token"}, None, None, "object", {"text"}, "Hi")
      [] t = TokBang   -> JObject({"token"}, None, None, "object", {"text"}, "!")
      [] t = TokYo     -> JObject({"token"}, None, None, "object", {"text"}, "Yo")
      [] t = Fin       -> JObject({"finishReason", "generatedTokens"}, "stop", "2", None, {}, None)
      [] t = FinNull   -> JObject({"finishReason", "generatedTokens"}, None, "0", None, {}, None)
      [] t = FinTok    -> JObject({"finishReason", "generatedTokens", "token"},
                                  "length", "1", "object", {"text"}, "X")
      [] t = FinNoGen  -> JObject({"finishReason"}, "stop", None, None, {}, None)
      [] t = EmptyObj  -> JObject({}, None, None, None, {}, None)
      [] t = TokNoText -> JObject({"token"}, None, None, "object", {}, None)
      [] t = TokStr    -> JObject({"token"}, None, None, "string", {}, None)
      [] t = Detail    -> JObject({"detail"}, None, None, None, {}, None)
      [] OTHER         -> [JObject({}, None, None, None, {}, None) EXCEPT !.type = "number"]

\* ------------------------------------------------------------------- text

\* The marker of an event line (main.py:264).
DataPrefix == "data:"
\* A byte that is not valid UTF-8.
BadByte == "<0xFF>"
\* The line terminator.
NL == "\n"
\* What json.loads skips around a JSON text.
Whitespace == {" ", NL}
\* The characters of the argument of rstrip("/n") (main.py:265): a slash and
\* the letter n, not a newline.
StripChars == {"/", "n"}

\* bytes.decode("utf-8") (main.py:263, 318): fails on a byte that is no UTF-8.
DecodeFails(resp_line) == \E i \in 1..Len(resp_line) : resp_line[i] = BadByte

\* resp_line == "b\n" (main.py:261, 316): a bytes object never equals a str.
IsSkipped(resp_line) == FALSE

\* payload.startswith("data:") (main.py:264, 319).
StartsWith(payload) == Len(payload) > 0 /\ payload[1] = DataPrefix

\* payload.removeprefix("data:") (main.py:265, 320).
RemovePrefix(payload) == IF StartsWith(payload) THEN Tail(payload) ELSE payload

\* s.rstrip(chars): drops the trailing characters that are in chars.
RECURSIVE RStrip(_, _)
RStrip(s, chars) ==
    IF Len(s) > 0 /\ s[Len(s)] \in chars
    THEN RStrip(SubSeq(s, 1, Len(s) - 1), chars)
    ELSE s

\* s.lstrip(chars).
RECURSIVE LStrip(_, _)
LStrip(s, chars) ==
    IF Len(s) > 0 /\ s[1] \in chars THEN LStrip(Tail(s), chars) ELSE s

\* json.loads(s) (main.py:265, 320): one JSON text, whitespace around it
\* allowed; anything else is a JSONDecodeError.
JsonLoads(s) ==
    LET t == LStrip(RStrip(s, Whitespace), Whitespace)
    IN  IF Len(t) = 1 /\ t[1] \in JsonTexts
        THEN [ok |-> TRUE, value |-> JsonValue(t[1])]
        ELSE [ok |-> FALSE, value |-> JsonValue(Num)]

\* The argument handed to json.loads for a marked line (main.py:265, 320).
Remainder(payload) == RStrip(RemovePrefix(payload), StripChars)

\* ------------------------------------------------------------------ frames

\* StreamingResponse(token=..., finish_reason=..., generated_tokens=...);
\* the fields not given keep their default, None.
StreamingResponse(token, finish_reason, generated_tokens) ==
    [token |-> token, finish_reason |-> finish_reason,
     generated_tokens |-> generated_tokens]

NoFrame == StreamingResponse(None, None, None)

Yield(f)  == [kind |-> "frame", frame |-> f, error |-> None]
Nothing   == [kind |-> "none", frame |-> NoFrame, error |-> None]
Raise(e)  == [kind |-> "error", frame |-> NoFrame, error |-> e]

FinalBranchNoCount(json_payload) ==
    IF "generatedTokens" \notin json_payload.keys
    THEN Raise("KeyError")
    ELSE Yield(StreamingResponse("", json_payload.finishReason, None))

\* main.py:266-271 / 321-326: the finishReason branch.
FinalBranch(json_payload) ==
    IF "generatedTokens" \notin json_payload.keys
    THEN Raise("KeyError")
    ELSE Yield(StreamingResponse("", json_payload.finishReason,
                                 json_payload.generatedTokens))

TokenBranchEmpty(json_payload) ==
    IF "token" \notin json_payload.keys THEN Raise("KeyError")
    ELSE IF json_payload.tokenType # "object" THEN Raise("TypeError")
    ELSE IF "text" \notin json_payload.tokenKeys THEN Raise("KeyError")
    ELSE Yield(StreamingResponse("", None, None))

TokenBranchLenient(json_payload) ==
    IF "token" \notin json_payload.keys THEN Nothing
    ELSE IF json_payload.tokenType # "object" THEN Nothing
    ELSE IF "text" \notin json_payload.tokenKeys THEN Nothing
    ELSE Yield(StreamingResponse(json_payload.text, None, None))

\* main.py:272-275 / 327-330: the token branch, json_payload["token"]["text"].
TokenBranch(json_payload) ==
    IF "token" \notin json_payload.keys THEN Raise("KeyError")
    ELSE IF json_payload.tokenType # "object" THEN Raise("TypeError")
    ELSE IF "text" \notin json_payload.tokenKeys THEN Raise("KeyError")
    ELSE Yield(StreamingResponse(json_payload.text, None, None))

BranchTokenFirst(json_payload) ==
    IF json_payload.type # "object" THEN Raise("TypeError")
    ELSE IF "token" \in json_payload.keys THEN TokenBranch(json_payload)
    ELSE IF "finishReason" \in json_payload.keys THEN FinalBranch(json_payload)
    ELSE Raise("KeyError")

\* main.py:266 / 321: "finishReason" in json_payload chooses the branch; the
\* test itself is a TypeError on a JSON number.
Branch(json_payload) ==
    IF json_payload.type # "object" THEN Raise("TypeError")
    ELSE IF "finishReason" \in json_payload.keys THEN FinalBranch(json_payload)
    ELSE TokenBranch(json_payload)

DecodeMarkedSkip(payload) ==
    LET parsed == JsonLoads(Remainder(payload))
    IN  IF parsed.ok THEN Branch(parsed.value) ELSE Nothing

\* main.py:265 / 320: json.loads of the remainder of a marked line.
DecodeMarked(payload) ==
    LET parsed == JsonLoads(Remainder(payload))
    IN  IF parsed.ok THEN Branch(parsed.value) ELSE Raise("JSONDecodeError")

ProcessLineNoPrefixTest(resp_line) ==
    IF IsSkipped(resp_line) THEN Nothing
    ELSE IF DecodeFails(resp_line) THEN Raise("UnicodeDecodeError")
    ELSE DecodeMarked(resp_line)

\* The body of the loop over the lines, main.py:261-275 / 316-330: what one
\* line of the response makes the generator do.
ProcessLine(resp_line) ==
    IF IsSkipped(resp_line) THEN Nothing
    ELSE IF DecodeFails(resp_line) THEN Raise("UnicodeDecodeError")
    ELSE IF StartsWith(resp_line) THEN DecodeMarked(resp_line)
    ELSE Nothing

\* ------------------------------------------------------- what a server sends

L_TokHi     == <<DataPrefix, TokHi>>
L_TokBang   == <<DataPrefix, " ", TokBang>>
L_TokYo     == <<DataPrefix, TokYo>>
L_Fin       == <<DataPrefix, Fin>>
L_FinNull   == <<DataPrefix, FinNull>>
L_FinTok    == <<DataPrefix, FinTok>>
L_FinNoGen  == <<DataPrefix, FinNoGen>>
L_EmptyObj  == <<DataPrefix, EmptyObj>>
L_TokNoText == <<DataPrefix, TokNoText>>
L_Num       == <<DataPrefix, Num>>
\* data:{bad json
L_Bad       == <<DataPrefix, "{bad jso", "n">>
\* A token event followed by the two characters slash and n.
L_SlashN    == <<DataPrefix, TokHi, "/", "n">>
\* Lines without the marker: an empty line, a JSON text alone, a marker that
\* is not at the start of the line, a line with a byte that is not UTF-8.
L_Empty     == <<>>
L_Detail    == <<Detail>>
L_Indented  == <<" ", DataPrefix, TokHi>>
L_BadByte   == <<BadByte>>

\* The lines a server may send to a call issued alone.
LineSet ==
    {L_TokHi, L_TokBang, L_Fin, L_FinNull, L_FinTok, L_FinNoGen, L_EmptyObj,
     L_TokNoText, L_Num, L_Bad, L_SlashN, L_Empty, L_Detail, L_Indented, L_BadByte}

\* The lines a server may send to call c when two calls run concurrently: each
\* call has token events of its own.
ConcLineSet(c) == {IF c = 1 THEN L_TokHi ELSE L_TokYo, L_Fin, L_Bad}

\* The statuses a server answers with: success and a failure.
Statuses == {HTTP_OK, 404}
ContentTypes == {"application/json", "text/event-stream"}

\* ------------------------------------------------------------------- state

VARIABLES
    mode,      \* "single": one call is issued; "concurrent": two calls overlap
    path,      \* per call: "sync" (generate_stream) or "async" (agenerate_stream)
    pc,        \* per call: where the generator stands
    ref,       \* per call: the caller still holds the generator object
    posts,     \* per call: POST requests issued to /generateStream
    status,    \* per call: status of the response, 0 before the server answers
    ctype,     \* per call: Content-Type of the response
    wire,      \* per call: the lines of the body the server has sent so far
    bodyEnd,   \* per call: the server has ended the body
    idx,       \* per call: lines the loop has taken from the body
    frames,    \* per call: the frames yielded to the caller, in order
    err,       \* per call: the exception the caller observed, None if none
    conn,      \* per call: the connection of the response: none, open, released
    ctx,       \* per call: the connection context used, 0 before the request
    ctxState,  \* per context: unopened, open, closed
    nctx       \* ClientSession objects created so far

vars == <<mode, path, pc, ref, posts, status, ctype, wire, bodyEnd, idx, frames,
          err, conn, ctx, ctxState, nctx>>

\* Context 1 is self._session, made in __init__ (main.py:65); context 1 + k is
\* the k-th ClientSession made by agenerate_stream (main.py:305).
SessionCtx == 1
ClientCtx(k) == 1 + k
CtxIds == {SessionCtx} \cup {ClientCtx(k) : k \in CallIds}

InitWith(m) ==
    /\ mode = m
    /\ path = [c \in CallIds |-> "none"]
    /\ pc = [c \in CallIds |-> "unissued"]
    /\ ref = [c \in CallIds |-> FALSE]
    /\ posts = [c \in CallIds |-> 0]
    /\ status = [c \in CallIds |-> 0]
    /\ ctype = [c \in CallIds |-> "none"]
    /\ wire = [c \in CallIds |-> <<>>]
    /\ bodyEnd = [c \in CallIds |-> FALSE]
    /\ idx = [c \in CallIds |-> 0]
    /\ frames = [c \in CallIds |-> <<>>]
    /\ err = [c \in CallIds |-> None]
    /\ conn = [c \in CallIds |-> "none"]
    /\ ctx = [c \in CallIds |-> 0]
    /\ ctxState = [k \in CtxIds |-> IF k = SessionCtx THEN "open" ELSE "unopened"]
    /\ nctx = 0

Init == InitWith("single")
InitConc == InitWith("concurrent")

\* ------------------------------------------------------------------ server

LinesFor(c) == IF mode = "single" THEN LineSet ELSE ConcLineSet(c)
LineBound == IF mode = "single" THEN MaxLines ELSE MaxConcLines

\* The server answers the request with a status line and headers.
ServerRespond(c) ==
    /\ pc[c] = "posting"
    /\ status[c] = 0
    /\ \E st \in Statuses, ct \in ContentTypes :
        \* The client reads the Content-Type of a non-200 response only.
        /\ st = HTTP_OK => ct = "text/event-stream"
        /\ status' = [status EXCEPT ![c] = st]
        /\ ctype' = [ctype EXCEPT ![c] = ct]
    /\ UNCHANGED <<mode, path, pc, ref, posts, wire, bodyEnd, idx, frames, err,
                   conn, ctx, ctxState, nctx>>

\* The server flushes one more line of the body on the open connection.
ServerSend(c) ==
    /\ conn[c] = "open"
    /\ status[c] # 0
    /\ ~bodyEnd[c]
    /\ Len(wire[c]) < LineBound
    /\ \E line \in LinesFor(c) : wire' = [wire EXCEPT ![c] = Append(@, line)]
    /\ UNCHANGED <<mode, path, pc, ref, posts, status, ctype, bodyEnd, idx, frames,
                   err, conn, ctx, ctxState, nctx>>

\* The server ends the body.
ServerEnd(c) ==
    /\ conn[c] = "open"
    /\ status[c] # 0
    /\ ~bodyEnd[c]
    /\ bodyEnd' = [bodyEnd EXCEPT ![c] = TRUE]
    /\ UNCHANGED <<mode, path, pc, ref, posts, status, ctype, wire, idx, frames,
                   err, conn, ctx, ctxState, nctx>>

\* ------------------------------------------------------------------ client

\* parse_error(status_code, response) of lisapy/errors.py: the typed error
\* of a status.
parse_error(status_code) ==
    IF status_code = 404 THEN "NotFoundError" ELSE "UnknownError"

\* The caller calls generate_stream or agenerate_stream (main.py:236, 279).
\* Both are generator functions: the call makes the generator object and runs
\* none of the body.
Issue(c) ==
    /\ pc[c] = "unissued"
    /\ mode = "single" => c = 1
    /\ \E p \in {"sync", "async"} : path' = [path EXCEPT ![c] = p]
    /\ pc' = [pc EXCEPT ![c] = "created"]
    /\ ref' = [ref EXCEPT ![c] = TRUE]
    /\ UNCHANGED <<mode, posts, status, ctype, wire, bodyEnd, idx, frames, err,
                   conn, ctx, ctxState, nctx>>

\* The connection context of a call: self._session for generate_stream
\* (main.py:258), a new ClientSession for agenerate_stream (main.py:305-309).
AcquireCtx(p, n) == IF p = "sync" THEN SessionCtx ELSE ClientCtx(n + 1)

\* The caller asks for the first frame: the body runs up to the POST
\* (main.py:252-258, 299-310).
StartNext(c) ==
    /\ pc[c] = "created"
    /\ pc' = [pc EXCEPT ![c] = "posting"]
    /\ posts' = [posts EXCEPT ![c] = @ + 1]
    /\ conn' = [conn EXCEPT ![c] = "open"]
    /\ ctx' = [ctx EXCEPT ![c] = AcquireCtx(path[c], nctx)]
    /\ nctx' = IF path[c] = "async" THEN nctx + 1 ELSE nctx
    /\ ctxState' = [ctxState EXCEPT ![AcquireCtx(path[c], nctx)] = "open"]
    /\ UNCHANGED <<mode, path, ref, status, ctype, wire, bodyEnd, idx, frames, err>>

\* Whether the POST returns only once the whole body is read.  main.py:258
\* passes no stream=True, so requests reads the body before post returns;
\* aiohttp (main.py:310) returns at the headers.
BodyBuffered(p) == p = "sync"

\* The connection of the response after the POST has returned: requests gives
\* it back to the pool once the body is read in full.
ConnAfterPost(p) == IF BodyBuffered(p) THEN "released" ELSE "open"

\* raise parse_error(response.status_code, response) (main.py:277, 314).  A
\* requests.Response has status_code; an aiohttp.ClientResponse has status
\* and no status_code, so evaluating the argument raises AttributeError.
RaiseStatus(p, st) == IF p = "sync" THEN parse_error(st) ELSE "AttributeError"

\* response.status_code == 200 (main.py:259), response.status != 200
\* (main.py:311).
IsSuccessAlways(st) == TRUE

IsSuccess(st) == st = HTTP_OK

\* The POST returns and the status is tested (main.py:258-259, 310-311).
PostReturn(c) ==
    /\ pc[c] = "posting"
    /\ status[c] # 0
    /\ BodyBuffered(path[c]) => bodyEnd[c]
    /\ conn' = [conn EXCEPT ![c] = ConnAfterPost(path[c])]
    /\ IF IsSuccess(status[c])
       THEN /\ pc' = [pc EXCEPT ![c] = "reading"]
            /\ err' = err
       ELSE IF path[c] = "sync"
       THEN /\ pc' = [pc EXCEPT ![c] = "failed"]
            /\ err' = [err EXCEPT ![c] = RaiseStatus(path[c], status[c])]
       ELSE /\ pc' = [pc EXCEPT ![c] = "errjson"]
            /\ err' = err
    /\ UNCHANGED <<mode, path, ref, posts, status, ctype, wire, bodyEnd, idx, frames,
                   ctx, ctxState, nctx>>

\* Leaving the two async with blocks (main.py:305-310) closes the response and
\* the ClientSession; generate_stream has acquired nothing it releases.
ConnAfterExit(c) ==
    [conn EXCEPT ![c] = IF path[c] = "async" /\ @ = "open" THEN "released" ELSE @]

CtxLeftOpen(c) == ctxState

CtxAfterExit(c) ==
    IF path[c] = "async" /\ ctx[c] # 0
    THEN [ctxState EXCEPT ![ctx[c]] = "closed"]
    ELSE ctxState

\* The body as one text: the lines, each followed by its terminator.
RECURSIVE Flatten(_)
Flatten(lines) ==
    IF lines = <<>> THEN <<>> ELSE Head(lines) \o <<NL>> \o Flatten(Tail(lines))

\* await response.json() of aiohttp (main.py:312): the exception it raises,
\* None when it returns.
ResponseJson(ct, lines) ==
    LET body == Flatten(lines)
        stripped == LStrip(RStrip(body, Whitespace), Whitespace)
    IN  IF ct # "application/json" THEN "ContentTypeError"
        ELSE IF stripped = <<>> THEN None
        ELSE IF DecodeFails(stripped) THEN "UnicodeDecodeError"
        ELSE IF JsonLoads(stripped).ok THEN None
        ELSE "JSONDecodeError"

\* agenerate_stream on a non-200 status (main.py:311-314): the body is read
\* as JSON, then the raise statement is evaluated.
ReadErrorBody(c) ==
    /\ pc[c] = "errjson"
    /\ bodyEnd[c]
    /\ pc' = [pc EXCEPT ![c] = "failed"]
    /\ err' = [err EXCEPT ![c] =
                 IF ResponseJson(ctype[c], wire[c]) # None
                 THEN ResponseJson(ctype[c], wire[c])
                 ELSE RaiseStatus(path[c], status[c])]
    /\ conn' = ConnAfterExit(c)
    /\ ctxState' = CtxAfterExit(c)
    /\ UNCHANGED <<mode, path, ref, posts, status, ctype, wire, bodyEnd, idx, frames,
                   ctx, nctx>>

\* The caller asks for the next frame of a generator suspended at a yield.
ResumeNext(c) ==
    /\ pc[c] = "suspended"
    /\ pc' = [pc EXCEPT ![c] = "reading"]
    /\ UNCHANGED <<mode, path, ref, posts, status, ctype, wire, bodyEnd, idx, frames,
                   err, conn, ctx, ctxState, nctx>>

\* The line the loop gets: iter_lines of requests (main.py:260) gives a line
\* without its terminator, the StreamReader of aiohttp (main.py:315) with it.
LineRead(p, line) == IF p = "sync" THEN line ELSE line \o <<NL>>

DeliverTwice(fs, f) == Append(Append(fs, f), f)

DeliverCounted(fs, f) ==
    Append(fs, IF nctx > 1 /\ f.generated_tokens # None
               THEN [f EXCEPT !.generated_tokens = "0"]
               ELSE f)

DeliverFirst(fs, f) == <<f>> \o fs

\* yield (main.py:267, 273, 322, 328): the frame goes to the caller.
Deliver(fs, f) == Append(fs, f)

AfterLineRetry(r) ==
    CASE r.kind = "frame" -> "suspended"
      [] r.kind = "error" -> "created"
      [] OTHER            -> "reading"

\* Where the generator stands after a line: suspended at the yield, failed
\* with the exception, or at the next turn of the loop.
AfterLine(r) ==
    CASE r.kind = "frame" -> "suspended"
      [] r.kind = "error" -> "failed"
      [] OTHER            -> "reading"

BodyOfFirst(c) == wire[1]

\* The body the loop of call c iterates: that of the response of its own
\* POST (response.iter_lines() main.py:260, response.content main.py:315).
Body(c) == wire[c]

\* One turn of the loop over the lines (main.py:260-275, 315-330).
ReadLine(c) ==
    /\ pc[c] = "reading"
    /\ idx[c] < Len(Body(c))
    /\ LET r == ProcessLine(LineRead(path[c], Body(c)[idx[c] + 1]))
       IN  /\ idx' = [idx EXCEPT ![c] = @ + 1]
           /\ pc' = [pc EXCEPT ![c] = AfterLine(r)]
           /\ frames' = [frames EXCEPT ![c] =
                            IF r.kind = "frame" THEN Deliver(@, r.frame) ELSE @]
           /\ err' = [err EXCEPT ![c] = IF r.kind = "error" THEN r.error ELSE @]
           /\ conn' = IF r.kind = "error" THEN ConnAfterExit(c) ELSE conn
           /\ ctxState' = IF r.kind = "error" THEN CtxAfterExit(c) ELSE ctxState
    /\ UNCHANGED <<mode, path, ref, posts, status, ctype, wire, bodyEnd, ctx, nctx>>

\* The body has ended and every line is taken: the loop ends and the
\* generator returns.
EndOfBody(c) ==
    /\ pc[c] = "reading"
    /\ idx[c] = Len(wire[c])
    /\ bodyEnd[c]
    /\ pc' = [pc EXCEPT ![c] = "done"]
    /\ conn' = ConnAfterExit(c)
    /\ ctxState' = CtxAfterExit(c)
    /\ UNCHANGED <<mode, path, ref, posts, status, ctype, wire, bodyEnd, idx, frames,
                   err, ctx, nctx>>

\* The task awaiting agenerate_stream is cancelled at a suspension point
\* (main.py:310, 312, 315): CancelledError is raised there and the async with
\* blocks are left.
Cancel(c) ==
    /\ path[c] = "async"
    /\ pc[c] \in {"posting", "errjson", "reading"}
    /\ pc' = [pc EXCEPT ![c] = "failed"]
    /\ err' = [err EXCEPT ![c] = "CancelledError"]
    /\ conn' = ConnAfterExit(c)
    /\ ctxState' = CtxAfterExit(c)
    /\ UNCHANGED <<mode, path, ref, posts, status, ctype, wire, bodyEnd, idx, frames,
                   ctx, nctx>>

\* Whether a timeout is attached to the request: agenerate_stream gives its
\* ClientSession timeout=self.async_timeout, ClientTimeout(self.timeout * 60)
\* (main.py:73, 308); generate_stream passes none to self._session.post
\* (main.py:258), and requests then waits without limit.
HasTimeoutAlways(p) == TRUE

HasTimeout(p) == p = "async"

\* The call is waiting for the server: for the response or for more of the
\* body.
Waiting(c) ==
    \/ pc[c] = "posting"
    \/ path[c] = "async" /\ pc[c] \in {"errjson", "reading"}

\* The total timeout of the request expires while the call waits: the wait
\* raises TimeoutError and the async with blocks are left.
Timeout(c) ==
    /\ HasTimeout(path[c])
    /\ Waiting(c)
    /\ pc' = [pc EXCEPT ![c] = "failed"]
    /\ err' = [err EXCEPT ![c] = "TimeoutError"]
    /\ conn' = ConnAfterExit(c)
    /\ ctxState' = CtxAfterExit(c)
    /\ UNCHANGED <<mode, path, ref, posts, status, ctype, wire, bodyEnd, idx, frames,
                   ctx, nctx>>

\* The consumer stops iterating (a break out of its loop) and either keeps
\* the generator object or lets go of it.  Nothing of the generator runs.
Abandon(c) ==
    /\ pc[c] \in {"created", "suspended"}
    /\ pc' = [pc EXCEPT ![c] = "abandoned"]
    /\ \E keep \in BOOLEAN : ref' = [ref EXCEPT ![c] = keep]
    /\ UNCHANGED <<mode, path, posts, status, ctype, wire, bodyEnd, idx, frames, err,
                   conn, ctx, ctxState, nctx>>

\* The caller lets go of a generator object it had kept.
DropRef(c) ==
    /\ pc[c] = "abandoned"
    /\ ref[c]
    /\ ref' = [ref EXCEPT ![c] = FALSE]
    /\ UNCHANGED <<mode, path, pc, posts, status, ctype, wire, bodyEnd, idx, frames,
                   err, conn, ctx, ctxState, nctx>>

\* An abandoned generator nobody refers to is finalized: close() or aclose()
\* raises GeneratorExit at the yield, which leaves the async with blocks.
Finalize(c) ==
    /\ pc[c] = "abandoned"
    /\ ~ref[c]
    /\ pc' = [pc EXCEPT ![c] = "closed"]
    /\ conn' = ConnAfterExit(c)
    /\ ctxState' = CtxAfterExit(c)
    /\ UNCHANGED <<mode, path, ref, posts, status, ctype, wire, bodyEnd, idx, frames,
                   err, ctx, nctx>>

Next ==
    \E c \in CallIds :
        \/ Issue(c)
        \/ StartNext(c)
        \/ ServerRespond(c)
        \/ ServerSend(c)
        \/ ServerEnd(c)
        \/ PostReturn(c)
        \/ ReadErrorBody(c)
        \/ ResumeNext(c)
        \/ ReadLine(c)
        \/ EndOfBody(c)
        \/ Cancel(c)
        \/ Timeout(c)
        \/ Abandon(c)
        \/ DropRef(c)
        \/ Finalize(c)

Spec == Init /\ [][Next]_vars

\* Two calls driven to their end under cooperative scheduling: every step of
\* one call may come between two steps of the other.
NextConc ==
    \E c \in CallIds :
        \/ Issue(c)
        \/ StartNext(c)
        \/ ServerRespond(c)
        \/ ServerSend(c)
        \/ ServerEnd(c)
        \/ PostReturn(c)
        \/ ReadErrorBody(c)
        \/ ResumeNext(c)
        \/ ReadLine(c)
        \/ EndOfBody(c)

SpecConc == InitConc /\ [][NextConc]_vars

\* ------------------------------------------------------------------ claims

\* The lines the loop of call c has taken so far.
Taken(c) == SubSeq(wire[c], 1, idx[c])

\* The lines of a sequence that carry the marker, in order.
RECURSIVE DataLines(_)
DataLines(lines) ==
    IF lines = <<>> THEN <<>>
    ELSE IF StartsWith(Head(lines)) THEN <<Head(lines)>> \o DataLines(Tail(lines))
    ELSE DataLines(Tail(lines))

\* The exceptions that come from outside the call: cancellation and the
\* expiry of the timeout.
Interruptions == {"CancelledError", "TimeoutError"}

\* The exceptions a line of the body raises.
LineErrors == {"UnicodeDecodeError", "JSONDecodeError", "KeyError", "TypeError"}

\* The lines call c has taken and not failed on.
Passed(c) ==
    IF pc[c] = "failed" /\ err[c] \in LineErrors
    THEN SubSeq(wire[c], 1, idx[c] - 1)
    ELSE Taken(c)

\* A frame of the finishReason branch.
IsFinal(f) == f.finish_reason # None \/ f.generated_tokens # None

TokensThenFinal(fs) == \A i \in 1..Len(fs) : IsFinal(fs[i]) => i = Len(fs)

\* A marked line whose JSON object has the finishReason key.
FinishLine(line) ==
    /\ StartsWith(line)
    /\ \E k \in 1..Len(line) :
        line[k] \in JsonTexts /\ "finishReason" \in JsonValue(line[k]).keys

\* The server sends no marked line after a finish event.
NoDataAfterFinish(lines) ==
    \A i, j \in 1..Len(lines) : i < j /\ FinishLine(lines[i]) => ~StartsWith(lines[j])

\* C1 (as stated): the frames yielded by a call are zero or more TokenFrames
\* followed by at most one FinalFrame; nothing follows a FinalFrame, even if
\* the server sends more data: lines after the finish event.
C1_NothingAfterFinal == \A c \in CallIds : TokensThenFinal(frames[c])

\* C1 (amended): the frames yielded by a call are zero or more TokenFrames
\* followed by at most one FinalFrame provided the server has sent no data:
\* line after its finish event; the client does not stop at a FinalFrame.
C1_TokensThenFinal ==
    \A c \in CallIds : NoDataAfterFinish(Taken(c)) => TokensThenFinal(frames[c])

C1_Witness ==
    \E c \in CallIds :
        /\ pc[c] = "done"
        /\ Len(frames[c]) = 2
        /\ ~IsFinal(frames[c][1])
        /\ IsFinal(frames[c][2])
        /\ Len(wire[c]) = 3

\* C2: when the status is not 200, the failure the caller observes is the
\* typed error parse_error(status_code, response), in both paths.
C2_MappedError ==
    \A c \in CallIds :
        (pc[c] = "failed" /\ status[c] \notin {0, HTTP_OK} /\ err[c] \notin Interruptions)
            => err[c] = parse_error(status[c])

\* C3: a call whose status is not 200 yields no frame and takes no line of
\* the body into the decoder, whatever the body holds.
C3_NoFrameOnFailure ==
    \A c \in CallIds :
        status[c] \notin {0, HTTP_OK} => frames[c] = <<>> /\ idx[c] = 0

C3_Witness ==
    \E c \in CallIds :
        /\ status[c] \notin {0, HTTP_OK}
        /\ pc[c] = "failed"
        /\ err[c] \notin {None} \cup Interruptions
        /\ wire[c] = <<L_TokHi, L_Fin>>

\* C4: on a 200 response the frames yielded are, in order, the decodings of
\* the data: lines in the order received: frame i is the decoding of the i-th
\* data: line, none is dropped, duplicated or reordered, and there are never
\* more frames than data: lines received.
C4_ArrivalOrder ==
    \A c \in CallIds :
        status[c] = HTTP_OK =>
            /\ Len(frames[c]) <= Len(DataLines(wire[c]))
            /\ Len(frames[c]) = Len(DataLines(Passed(c)))
            /\ \A i \in 1..Len(frames[c]) :
                ProcessLine(LineRead(path[c], DataLines(Passed(c))[i])) = Yield(frames[c][i])

C4_Witness ==
    \E c \in CallIds :
        /\ wire[c] = <<L_TokBang, L_Empty, L_TokHi>>
        /\ frames[c] = <<StreamingResponse("!", None, None),
                         StreamingResponse("Hi", None, None)>>

\* C5: frames are delivered incrementally in both paths: a data: line that
\* has been received is handed to the caller who asked for a frame without
\* waiting for a later line or for the end of the body.
C5_Incremental ==
    \A c \in CallIds :
        (/\ status[c] = HTTP_OK
         /\ pc[c] \in {"posting", "reading"}
         /\ idx[c] < Len(wire[c])
         /\ ProcessLine(LineRead(path[c], wire[c][idx[c] + 1])).kind = "frame")
            => ENABLED (PostReturn(c) \/ ReadLine(c))

\* C6: once the consumer has stopped iterating, the connection of the call
\* does not stay held open: it is released, or its release is under way.
C6_ReleasedOnStop ==
    \A c \in CallIds :
        pc[c] = "abandoned" => (conn[c] # "open" \/ ENABLED Finalize(c))

\* C7: the connection context agenerate_stream opens is closed once the call
\* has ended (body exhausted, non-200 status, decode error), and no other call
\* uses it.
C7_ContextReleased ==
    \A c \in CallIds :
        path[c] = "async" =>
            /\ pc[c] \in {"done", "failed"} =>
                /\ ctx[c] # 0
                /\ ctxState[ctx[c]] = "closed"
                /\ conn[c] = "released"
            /\ ctx[c] # 0 =>
                /\ ctx[c] # SessionCtx
                /\ \A d \in CallIds \ {c} : ctx[d] # ctx[c]

C7_Witness ==
    \E c, d \in CallIds :
        /\ path[c] = "async" /\ path[d] = "async"
        /\ pc[c] = "done" /\ Len(frames[c]) = 2
        /\ pc[d] = "failed" /\ err[d] = "JSONDecodeError"
        /\ ctxState[ctx[c]] = "closed" /\ ctxState[ctx[d]] = "closed"

\* A marked line, as path p reads it, whose remainder is not valid JSON.
BadJsonLine(p, line) ==
    /\ ~DecodeFails(LineRead(p, line))
    /\ StartsWith(LineRead(p, line))
    /\ ~JsonLoads(Remainder(LineRead(p, line))).ok

\* C8: when the remainder of a data: line is not valid JSON the call fails
\* with a decode error at that line: the frames of the earlier lines are all
\* delivered, the line is not skipped and no later line is taken.
C8_MalformedIsFatal ==
    \A c \in CallIds :
        status[c] = HTTP_OK =>
            \A k \in 1..idx[c] :
                BadJsonLine(path[c], wire[c][k]) =>
                    /\ pc[c] = "failed"
                    /\ err[c] = "JSONDecodeError"
                    /\ idx[c] = k
                    /\ Len(frames[c]) = Len(DataLines(SubSeq(wire[c], 1, k - 1)))

C8_Witness ==
    \E c \in CallIds :
        /\ wire[c] = <<L_TokHi, L_Bad, L_Fin>>
        /\ pc[c] = "failed"
        /\ err[c] = "JSONDecodeError"
        /\ frames[c] = <<StreamingResponse("Hi", None, None)>>

\* The JSON text of a marked line: what follows the marker, without the
\* whitespace around it.
PayloadOf(line) == LStrip(RStrip(Tail(line), Whitespace), Whitespace)

IsJsonLine(line) ==
    StartsWith(line) /\ Len(PayloadOf(line)) = 1 /\ PayloadOf(line)[1] \in JsonTexts

ObjectOf(line) == JsonValue(PayloadOf(line)[1])

\* {token: {text}} and no finishReason key.
TokenShaped(line) ==
    /\ IsJsonLine(line)
    /\ ObjectOf(line).type = "object"
    /\ "finishReason" \notin ObjectOf(line).keys
    /\ "token" \in ObjectOf(line).keys
    /\ ObjectOf(line).tokenType = "object"
    /\ "text" \in ObjectOf(line).tokenKeys

\* {finishReason, generatedTokens}.
FinishShaped(line) ==
    /\ IsJsonLine(line)
    /\ ObjectOf(line).type = "object"
    /\ {"finishReason", "generatedTokens"} \subseteq ObjectOf(line).keys

\* Call c takes a line in this step.
Takes(c) == idx'[c] = idx[c] + 1

\* C9: taking a data: line whose JSON object is token-shaped yields exactly
\* one frame, whose token is the text of the payload and whose finish_reason
\* and generated_tokens are absent.
C9_TokenFrame ==
    [][\A c \in CallIds :
        (Takes(c) /\ TokenShaped(wire[c][idx'[c]])) =>
            /\ pc'[c] = "suspended"
            /\ frames'[c] = Append(frames[c],
                   [token |-> ObjectOf(wire[c][idx'[c]]).text,
                    finish_reason |-> None, generated_tokens |-> None])]_vars

C9_Witness ==
    \E c \in CallIds :
        /\ path[c] = "async"
        /\ pc[c] = "suspended"
        /\ wire[c] = <<L_TokHi, L_TokBang>>
        /\ idx[c] = 2
        /\ frames[c] = <<StreamingResponse("Hi", None, None),
                         StreamingResponse("!", None, None)>>

\* C10: taking a data: line whose JSON object is finish-shaped yields exactly
\* one frame, whose finish_reason and generated_tokens are those of the
\* payload and whose token is the empty string.
C10_FinalFrame ==
    [][\A c \in CallIds :
        (Takes(c) /\ FinishShaped(wire[c][idx'[c]])) =>
            /\ pc'[c] = "suspended"
            /\ frames'[c] = Append(frames[c],
                   [token |-> "",
                    finish_reason |-> ObjectOf(wire[c][idx'[c]]).finishReason,
                    generated_tokens |-> ObjectOf(wire[c][idx'[c]]).generatedTokens])]_vars

C10_Witness ==
    \E c \in CallIds :
        /\ pc[c] = "suspended"
        /\ wire[c] = <<L_TokHi, L_Fin>>
        /\ idx[c] = 2
        /\ frames[c] = <<StreamingResponse("Hi", None, None),
                         StreamingResponse("", "stop", "2")>>

\* A line without the marker.
Filler(line) == ~StartsWith(line)

\* C11 (as stated): taking any line that does not start with data: yields no
\* frame, raises no error and leaves the frames and the course of the call
\* as they were.
C11_FillerIsNoOp ==
    [][\A c \in CallIds :
        (Takes(c) /\ Filler(wire[c][idx'[c]])) =>
            /\ frames'[c] = frames[c]
            /\ err'[c] = err[c]
            /\ pc'[c] = "reading"]_vars

\* C11 (amended): taking a line that is valid UTF-8 and does not start with
\* data: yields no frame, raises no error and leaves the frames and the course
\* of the call as they were.
C11_TextFillerIsNoOp ==
    [][\A c \in CallIds :
        (Takes(c) /\ Filler(wire[c][idx'[c]]) /\ ~DecodeFails(wire[c][idx'[c]])) =>
            /\ frames'[c] = frames[c]
            /\ err'[c] = err[c]
            /\ pc'[c] = "reading"]_vars

C11_Witness ==
    \E c \in CallIds :
        /\ wire[c] = <<L_Indented, L_TokHi, L_Empty>>
        /\ pc[c] = "done"
        /\ frames[c] = <<StreamingResponse("Hi", None, None)>>

\* The frames of a sequence of lines as path p reads them, each line taken
\* alone.
RECURSIVE FramesOf(_, _)
FramesOf(p, lines) ==
    IF lines = <<>> THEN <<>>
    ELSE (IF ProcessLine(LineRead(p, Head(lines))).kind = "frame"
          THEN <<ProcessLine(LineRead(p, Head(lines))).frame>>
          ELSE <<>>) \o FramesOf(p, Tail(lines))

\* The token texts of the events the server sends to call c.
OwnTexts(c) ==
    {ObjectOf(line).text : line \in {l \in LinesFor(c) : TokenShaped(l)}}

\* C12: two agenerate_stream calls that run concurrently each yield, under
\* every interleaving, the ordered frames of the lines of their own response:
\* no frame of one call comes from a line of the other, and each call has a
\* connection context of its own.
C12_NoCrossTalk ==
    \A c \in CallIds :
        (path[c] = "async" /\ status[c] = HTTP_OK) =>
            /\ idx[c] <= Len(wire[c])
            /\ frames[c] = FramesOf(path[c], Passed(c))
            /\ \A i \in 1..Len(frames[c]) :
                ~IsFinal(frames[c][i]) => frames[c][i].token \in OwnTexts(c)
            /\ \A d \in CallIds \ {c} : ctx[d] # ctx[c]

C12_Witness ==
    \E c, d \in CallIds :
        /\ c # d
        /\ path[c] = "async" /\ path[d] = "async"
        /\ conn[c] = "open" /\ conn[d] = "open"
        /\ pc[c] = "suspended" /\ pc[d] = "reading"
        /\ frames[c] = <<StreamingResponse("Hi", None, None),
                         StreamingResponse("", "stop", "2")>>
        /\ frames[d] = <<StreamingResponse("Yo", None, None)>>
        /\ idx[d] = 1 /\ Len(wire[d]) = 2

\* C13: in both paths the timeout of the client configuration is attached to
\* the streaming call: whenever the call waits for the server, the expiry of
\* the timeout can end the wait with a transport failure.
C13_TimeoutAttached ==
    \A c \in CallIds : Waiting(c) => ENABLED Timeout(c)

\* Call c has failed on the last line it took.
FailedOnLine(c) == pc[c] = "failed" /\ err[c] \in LineErrors

\* C14: decoding is a function of the lines alone: two calls on the same path
\* that have taken the same lines have yielded the same frames and failed, if
\* at all, with the same error at the same line; and the frames of a call are
\* those of its lines taken one by one, whatever came before.
C14_PureDecoding ==
    \A c, d \in CallIds :
        (/\ path[c] # "none" /\ path[c] = path[d]
         /\ status[c] = HTTP_OK /\ status[d] = HTTP_OK
         /\ Taken(c) = Taken(d)) =>
            /\ frames[c] = frames[d]
            /\ FailedOnLine(c) <=> FailedOnLine(d)
            /\ FailedOnLine(c) => err[c] = err[d]
            /\ frames[c] = FramesOf(path[c], Passed(c))

C14_Witness ==
    \E c, d \in CallIds :
        /\ c # d
        /\ path[c] = "async" /\ path[d] = "async"
        /\ Taken(c) = <<L_Fin, L_Bad>> /\ Taken(d) = <<L_Fin, L_Bad>>
        /\ frames[c] = <<StreamingResponse("", "stop", "2")>>
        /\ frames[d] = frames[c]
        /\ err[c] = "JSONDecodeError" /\ err[d] = "JSONDecodeError"

\* Call c has ended: the generator has returned or raised.
Ended(c) == pc[c] \in {"done", "failed"}

\* C15: given the same status, the same headers and the same lines,
\* generate_stream and agenerate_stream end with the same outcome: the same
\* frames, and the same failure if any.
C15_SameOutcome ==
    \A c, d \in CallIds :
        (/\ path[c] = "sync" /\ path[d] = "async"
         /\ status[c] # 0 /\ status[c] = status[d] /\ ctype[c] = ctype[d]
         /\ wire[c] = wire[d]
         /\ Ended(c) /\ Ended(d)) =>
            /\ frames[c] = frames[d]
            /\ pc[c] = pc[d]
            /\ err[c] = err[d]

\* A marked line of valid JSON that has neither shape: not an object, a
\* finishReason without generatedTokens, or neither finishReason nor
\* token.text.
Unrecognized(line) ==
    /\ IsJsonLine(line)
    /\ \/ ObjectOf(line).type # "object"
       \/ /\ "finishReason" \in ObjectOf(line).keys
          /\ "generatedTokens" \notin ObjectOf(line).keys
       \/ /\ "finishReason" \notin ObjectOf(line).keys
          /\ ~("token" \in ObjectOf(line).keys
               /\ ObjectOf(line).tokenType = "object"
               /\ "text" \in ObjectOf(line).tokenKeys)

\* C16: a data: line of valid JSON that has neither recognized shape is
\* fatal: the call raises at that line, the line is neither skipped nor made
\* a frame, and no later line is taken.
C16_UnrecognizedIsFatal ==
    \A c \in CallIds :
        status[c] = HTTP_OK =>
            \A k \in 1..idx[c] :
                Unrecognized(wire[c][k]) =>
                    /\ pc[c] = "failed"
                    /\ err[c] \in {"KeyError", "TypeError"}
                    /\ idx[c] = k
                    /\ Len(frames[c]) = Len(DataLines(SubSeq(wire[c], 1, k - 1)))

C16_Witness ==
    \E c \in CallIds :
        /\ wire[c] = <<L_TokHi, L_EmptyObj, L_Fin>>
        /\ pc[c] = "failed"
        /\ err[c] = "KeyError"
        /\ frames[c] = <<StreamingResponse("Hi", None, None)>>

IsPrefix(a, b) == Len(a) <= Len(b) /\ SubSeq(b, 1, Len(a)) = a

\* C17: nothing is retried: whatever the outcome, a call issues at most one
\* POST, never takes a line again, and a frame once delivered stays delivered
\* and is not produced again (frames only grow, by the frame of a line newly
\* taken).
C17_NoRetry ==
    [][\A c \in CallIds :
        /\ posts[c] <= posts'[c]
        /\ posts'[c] <= 1
        /\ idx[c] <= idx'[c]
        /\ IsPrefix(frames[c], frames'[c])
        /\ Len(frames'[c]) <= Len(frames[c]) + 1
        /\ frames'[c] # frames[c] => Takes(c)]_vars

C17_Witness ==
    \E c \in CallIds :
        /\ pc[c] = "failed"
        /\ err[c] = "JSONDecodeError"
        /\ posts[c] = 1
        /\ idx[c] = 2
        /\ Len(frames[c]) = 1

\* The caller has asked call c for a frame and the generator is running for
\* it: up to the POST, over the error body, or in the line loop.
Asking(c) == pc[c] \in {"posting", "errjson", "reading"}

\* This step ends call c with the failure of a response whose status is not
\* 200.
StatusFailureStep(c) ==
    /\ pc[c] # "failed" /\ pc'[c] = "failed"
    /\ status[c] \notin {0, HTTP_OK}
    /\ err'[c] \notin Interruptions

\* This step ends call c with a transport or a decode failure.
StreamFailureStep(c) ==
    /\ pc[c] # "failed" /\ pc'[c] = "failed"
    /\ err'[c] \in Interruptions \cup LineErrors
    /\ err'[c] \in LineErrors => status[c] = HTTP_OK

\* C18 as stated: a status failure is the outcome of invoking generate_stream
\* or agenerate_stream itself, before the caller asks for any frame.
C18_AtCallStart ==
    [][\A c \in CallIds : StatusFailureStep(c) => pc[c] = "unissued"]_vars

\* C18: invoking generate_stream or agenerate_stream never fails and sends
\* nothing; a status failure is observed when the caller asks for the first
\* frame, after the one POST and before any line is taken or any frame
\* delivered, and a response whose status is not 200 never reaches the line
\* loop; a transport or decode failure is observed while the caller is asking
\* for a frame, a decode failure at a line taken in the loop.
C18_AtFirstRequest ==
    [][\A c \in CallIds :
        /\ pc[c] = "unissued" =>
              /\ pc'[c] \in {"unissued", "created"}
              /\ posts'[c] = 0
              /\ err'[c] = None
        /\ StatusFailureStep(c) =>
              /\ Asking(c)
              /\ posts[c] = 1
              /\ idx'[c] = 0
              /\ frames'[c] = <<>>
        /\ StreamFailureStep(c) =>
              /\ Asking(c)
              /\ err'[c] \in LineErrors => pc[c] = "reading" /\ Takes(c)
        /\ pc'[c] \in {"reading", "suspended", "done"} => status'[c] = HTTP_OK]_vars

C18_Witness ==
    \E c \in CallIds :
        /\ path[c] = "sync"
        /\ pc[c] = "failed"
        /\ status[c] = 404
        /\ err[c] = parse_error(404)
        /\ posts[c] = 1
        /\ frames[c] = <<>>

\* A data: line whose JSON object has the finishReason key, whatever its value
\* and whatever else the object holds.
HasFinishKey(line) ==
    /\ IsJsonLine(line)
    /\ ObjectOf(line).type = "object"
    /\ "finishReason" \in ObjectOf(line).keys

\* C19: the finishReason key alone chooses the branch.  Taking a data: line
\* whose object has the key, with a null value or next to a token field as
\* well, delivers at most one frame, with an empty token and the payload's
\* finish_reason and generated_tokens; it delivers that frame exactly when the
\* payload has generatedTokens and fails with KeyError otherwise; the token
\* text of such a payload is in no frame.
C19_FinishKeyWins ==
    [][\A c \in CallIds :
        (Takes(c) /\ HasFinishKey(wire[c][idx'[c]])) =>
            LET o == ObjectOf(wire[c][idx'[c]])
            IN  /\ "generatedTokens" \in o.keys =>
                      /\ pc'[c] = "suspended"
                      /\ frames'[c] =
                             Append(frames[c],
                                    StreamingResponse("", o.finishReason, o.generatedTokens))
                /\ "generatedTokens" \notin o.keys =>
                      /\ pc'[c] = "failed"
                      /\ err'[c] = "KeyError"
                      /\ frames'[c] = frames[c]
                /\ o.text # None =>
                      \A i \in 1..Len(frames'[c]) : frames'[c][i].token # o.text]_vars

C19_Witness ==
    \E c \in CallIds :
        /\ pc[c] = "suspended"
        /\ wire[c] = <<L_FinNull, L_FinTok>>
        /\ idx[c] = 2
        /\ frames[c] = <<StreamingResponse("", None, "0"),
                         StreamingResponse("", "length", "1")>>

====
